---- MODULE Spec2Model ----
(***************************************************************************)
(* A model of the todo-list application: the task store (the express       *)
(* routes of server/routes.ts over DatabaseStorage) and the task view      *)
(* (the Home component with its react-query list query and mutations).     *)
(***************************************************************************)
EXTENDS Integers, Sequences, FiniteSets, Bags

(***************************************************************************)
(* Bounds of the model.                                                    *)
(***************************************************************************)
\* the last id the serial sequence hands out in a run
MaxId == 2
\* the last instant of the logical clock
MaxClock == 1
\* the most mutation requests in flight at once
MaxInflight == 2
\* the most tasks already in the table when the page is opened
MaxPreloaded == 3
\* the same, where the tasks are then edited or toggled
MaxFew == 2

(***************************************************************************)
(* Strings are sequences of characters.                                    *)
(***************************************************************************)
\* the texts a user types
Strings == {<<>>, <<" ">>, <<"a">>, <<" ", "a">>, <<"a", " ">>}

\* the texts an API client sends
ApiTexts == {<<>>, <<" ">>, <<"a">>}

RECURSIVE trimStart(_)
trimStart(s) ==
    IF s # <<>> /\ Head(s) = " " THEN trimStart(Tail(s)) ELSE s

RECURSIVE trimEnd(_)
trimEnd(s) ==
    IF s # <<>> /\ s[Len(s)] = " " THEN trimEnd(SubSeq(s, 1, Len(s) - 1)) ELSE s

\* String.prototype.trim
trim(s) == trimEnd(trimStart(s))

Digits == <<"0", "1", "2", "3", "4", "5", "6", "7", "8", "9">>

IsDigit(c) == \E d \in 1..Len(Digits) : Digits[d] = c

DigitVal(c) == (CHOOSE d \in 1..Len(Digits) : Digits[d] = c) - 1

\* the ":id" path parameters an API client sends
Params == {<<"1">>, <<"2">>, <<"3">>, <<"x">>, <<"2", "x">>}

\* the value parseInt gives for "not a number"
NaN == -1

RECURSIVE parseDigits(_, _)
parseDigits(s, acc) ==
    IF s # <<>> /\ IsDigit(Head(s))
    THEN parseDigits(Tail(s), acc * Len(Digits) + DigitVal(Head(s)))
    ELSE acc

\* parseInt(req.params.id): the leading run of digits, NaN when there is none
parseInt(s) ==
    IF s # <<>> /\ IsDigit(Head(s)) THEN parseDigits(s, 0) ELSE NaN

isNaN(n) == n = NaN

RECURSIVE idToString(_)
\* `${id}` in a request path: the decimal digits of a natural number
idToString(n) ==
    IF n < Len(Digits) THEN <<Digits[n + 1]>>
    ELSE idToString(n \div Len(Digits)) \o <<Digits[(n % Len(Digits)) + 1]>>

(***************************************************************************)
(* Request bodies: JSON objects with any of the keys text and completed.   *)
(***************************************************************************)
EmptyBody == [k \in {} |-> TRUE]

Bodies ==
    {EmptyBody}
    \cup {[text |-> s] : s \in ApiTexts}
    \cup {[completed |-> b] : b \in BOOLEAN}
    \cup {[text |-> s, completed |-> TRUE] : s \in ApiTexts}

\* the keys of b among ks, with their values
Pick(b, ks) == [k \in (DOMAIN b) \cap ks |-> b[k]]

(***************************************************************************)
(* The shared schema: the todos table and the two request schemas.         *)
(***************************************************************************)
\* insertTodoSchema.safeParse: text is required and not blank; other keys
\* are dropped
insertTodoSchema(body) ==
    [success |-> "text" \in DOMAIN body /\ trim(body.text) # <<>>,
     data    |-> Pick(body, {"text"})]

\* updateTodoSchema.safeParse: text and completed are optional; a supplied
\* text passes the same check as on insert
updateTodoSchema(body) ==
    [success |-> ("text" \in DOMAIN body => trim(body.text) # <<>>),
     data    |-> Pick(body, {"text", "completed"})]

\* the row the todos table stores for an insert: a serial id, completed
\* false unless the insert gives it, and both timestamps the instant of the
\* insert
todosRow(id, t, values) ==
    [id |-> id, text |-> values.text,
     completed |-> IF "completed" \in DOMAIN values THEN values.completed
                   ELSE FALSE,
     createdAt |-> t, updatedAt |-> t]

(***************************************************************************)
(* The program's state.                                                    *)
(***************************************************************************)
VARIABLES
    store,        \* the rows of the todos table
    nextId,       \* the next value of the table's serial id
    now,          \* the clock
    req,          \* the API client's request
    res,          \* the response to it
    newTodoText,  \* view: the new-task draft
    activeFilter, \* view: the selected filter
    editingId,    \* view: the task being edited, 0 for null
    editingText,  \* view: the edit draft
    data,         \* view: the list query's data
    loaded,       \* view: whether the list query has data
    error,        \* view: whether the list query is in error
    fetch,        \* view: the list request in flight
    inflight,     \* view: the mutation requests in flight
    toast,        \* view: the last notification
    cleared       \* history: the list the last confirmed "clear completed"
                  \* saw, and whether a delete has failed since

vars == <<store, nextId, now, req, res, newTodoText, activeFilter, editingId,
          editingText, data, loaded, error, fetch, inflight, toast, cleared>>

viewVars == <<newTodoText, activeFilter, editingId, editingText, data, loaded,
              error, fetch, inflight, toast, cleared>>

dbVars == <<store, nextId, now>>

apiVars == <<req, res>>

(***************************************************************************)
(* DatabaseStorage.                                                        *)
(***************************************************************************)
\* whether rows, a sequence holding each row of st once, is ordered by
\* createdAt descending
IsListing(rows, st) ==
    /\ Len(rows) = Cardinality(st)
    /\ {rows[i] : i \in 1..Len(rows)} = st
    /\ \A i \in 1..Len(rows) : \A j \in 1..Len(rows) :
           i < j => rows[i].createdAt >= rows[j].createdAt

\* getAllTodos: the rows ordered by createdAt descending; rows of equal
\* createdAt come in any order
getAllTodos(st) ==
    {rows \in [1..Cardinality(st) -> st] : IsListing(rows, st)}

createTodo(st, id, t, insertTodo) ==
    LET todo == todosRow(id, t, insertTodo)
    IN  [store |-> st \cup {todo}, todo |-> <<todo>>]

\* .set({ ...updates, updatedAt: new Date() })
setRow(row, updates, t) ==
    [f \in DOMAIN row |->
        IF f = "updatedAt" THEN t
        ELSE IF f \in DOMAIN updates THEN updates[f]
        ELSE row[f]]

\* updateTodo without its where clause: every row is set
updateTodo_everyRow(st, id, updates, t) ==
    LET set == {setRow(r, updates, t) : r \in st}
        hit == {r \in set : r.id = id}
    IN  [store |-> set,
         todo  |-> IF hit = {} THEN <<>> ELSE <<CHOOSE r \in hit : TRUE>>]

updateTodo(st, id, updates, t) ==
    LET hit == {r \in st : r.id = id}
        set == {setRow(r, updates, t) : r \in hit}
    IN  [store |-> (st \ hit) \cup set,
         todo  |-> IF set = {} THEN <<>> ELSE <<CHOOSE r \in set : TRUE>>]

\* deleteTodo reporting rowCount >= 0
deleteTodo_alwaysTrue(st, id) ==
    LET hit == {r \in st : r.id = id}
    IN  [store |-> st \ hit, deleted |-> Cardinality(hit) >= 0]

deleteTodo(st, id) ==
    LET hit == {r \in st : r.id = id}
    IN  [store |-> st \ hit, deleted |-> Cardinality(hit) > 0]

(***************************************************************************)
(* The routes.  Each gives the response and the table after the request;   *)
(* dbFails says that the storage call throws.                              *)
(***************************************************************************)
Reply(status, rows, st, nid) ==
    [status |-> status, rows |-> rows, store |-> st, nextId |-> nid]

\* what the client receives of a reply
Response(r) == [status |-> r.status, rows |-> r.rows]

\* GET /api/todos, answering with the listing rows
GetTodos(rows, st, nid, dbFails) ==
    IF dbFails THEN Reply(500, <<>>, st, nid)
    ELSE Reply(200, rows, st, nid)

\* POST /api/todos handing req.body, not result.data, to the storage
PostTodos_rawBody(body, st, nid, t, dbFails) ==
    LET result == insertTodoSchema(body)
    IN  IF ~result.success THEN Reply(400, <<>>, st, nid)
        ELSE IF dbFails THEN Reply(500, <<>>, st, nid)
        ELSE LET made == createTodo(st, nid, t, body)
             IN  Reply(201, made.todo, made.store, nid + 1)

\* POST /api/todos going on after a failed safeParse; an insert without
\* text fails in the database
PostTodos_unchecked(body, st, nid, t, dbFails) ==
    IF dbFails \/ "text" \notin DOMAIN body THEN Reply(500, <<>>, st, nid)
    ELSE LET made == createTodo(st, nid, t, Pick(body, {"text"}))
         IN  Reply(201, made.todo, made.store, nid + 1)

\* POST /api/todos
PostTodos(body, st, nid, t, dbFails) ==
    LET result == insertTodoSchema(body)
    IN  IF ~result.success THEN Reply(400, <<>>, st, nid)
        ELSE IF dbFails THEN Reply(500, <<>>, st, nid)
        ELSE LET made == createTodo(st, nid, t, result.data)
             IN  Reply(201, made.todo, made.store, nid + 1)

\* PUT /api/todos/:id without the test of the storage's result
PutTodo_noNotFound(param, body, st, nid, t, dbFails) ==
    LET id     == parseInt(param)
        result == updateTodoSchema(body)
    IN  IF isNaN(id) THEN Reply(400, <<>>, st, nid)
        ELSE IF ~result.success THEN Reply(400, <<>>, st, nid)
        ELSE IF dbFails THEN Reply(500, <<>>, st, nid)
        ELSE LET upd == updateTodo(st, id, result.data, t)
             IN  Reply(200, upd.todo, upd.store, nid)

\* PUT /api/todos/:id
PutTodo(param, body, st, nid, t, dbFails) ==
    LET id     == parseInt(param)
        result == updateTodoSchema(body)
    IN  IF isNaN(id) THEN Reply(400, <<>>, st, nid)
        ELSE IF ~result.success THEN Reply(400, <<>>, st, nid)
        ELSE IF dbFails THEN Reply(500, <<>>, st, nid)
        ELSE LET upd == updateTodo(st, id, result.data, t)
             IN  IF upd.todo = <<>> THEN Reply(404, <<>>, upd.store, nid)
                 ELSE Reply(200, upd.todo, upd.store, nid)

\* DELETE /api/todos/:id
DeleteTodo(param, st, nid, dbFails) ==
    LET id == parseInt(param)
    IN  IF isNaN(id) THEN Reply(400, <<>>, st, nid)
        ELSE IF dbFails THEN Reply(500, <<>>, st, nid)
        ELSE LET del == deleteTodo(st, id)
             IN  IF ~del.deleted THEN Reply(404, <<>>, del.store, nid)
                 ELSE Reply(204, <<>>, del.store, nid)

\* the serial sequence is capped at MaxId
CanInsert(body, nid) == insertTodoSchema(body).success => nid <= MaxId

(***************************************************************************)
(* The state after construction.                                           *)
(***************************************************************************)
NoRequest == [method |-> "none", param |-> <<>>, body |-> EmptyBody]

NoResponse == [status |-> 0, rows |-> <<>>]

NoFetch == [state |-> "idle", rows |-> <<>>]

NoClear == [ran |-> FALSE, seen |-> <<>>, failed |-> FALSE]

\* the page has just been opened: the list query is fetching
InitView ==
    /\ newTodoText = <<>>
    /\ activeFilter = "all"
    /\ editingId = 0
    /\ editingText = <<>>
    /\ data = <<>>
    /\ loaded = FALSE
    /\ error = FALSE
    /\ fetch = [state |-> "sent", rows |-> <<>>]
    /\ inflight = EmptyBag
    /\ toast = "none"
    /\ cleared = NoClear

\* a new database
InitEmpty ==
    /\ store = {}
    /\ nextId = 1
    /\ now = 0
    /\ req = NoRequest
    /\ res = NoResponse
    /\ InitView

(***************************************************************************)
(* An API client: it sends a request, the server handles it, and the       *)
(* client takes the response.                                              *)
(***************************************************************************)
ApiSend(method, param, body) ==
    /\ req = NoRequest
    /\ req' = [method |-> method, param |-> param, body |-> body]
    /\ UNCHANGED <<dbVars, res, viewVars>>

Route(r, rows, dbFails) ==
    CASE r.method = "GET" -> GetTodos(rows, store, nextId, dbFails)
      [] r.method = "POST" -> PostTodos(r.body, store, nextId, now, dbFails)
      [] r.method = "PUT" -> PutTodo(r.param, r.body, store, nextId, now, dbFails)
      [] r.method = "DELETE" -> DeleteTodo(r.param, store, nextId, dbFails)

ApiHandle ==
    /\ req # NoRequest
    /\ res = NoResponse
    /\ req.method = "POST" => CanInsert(req.body, nextId)
    /\ \E rows \in getAllTodos(store) : \E dbFails \in BOOLEAN :
           LET reply == Route(req, rows, dbFails)
           IN  /\ res' = Response(reply)
               /\ store' = reply.store
               /\ nextId' = reply.nextId
    /\ UNCHANGED <<now, req, viewVars>>

ApiDone ==
    /\ res # NoResponse
    /\ req' = NoRequest
    /\ res' = NoResponse
    /\ UNCHANGED <<dbVars, viewVars>>

\* time passes
Tick ==
    /\ now < MaxClock
    /\ now' = now + 1
    /\ UNCHANGED <<store, nextId, apiVars, viewVars>>

NextStore ==
    \/ ApiSend("GET", <<>>, EmptyBody)
    \/ \E body \in Bodies : ApiSend("POST", <<>>, body)
    \/ \E param \in Params : \E body \in Bodies : ApiSend("PUT", param, body)
    \/ \E param \in Params : ApiSend("DELETE", param, EmptyBody)
    \/ ApiHandle
    \/ ApiDone
    \/ Tick

SpecStore == InitEmpty /\ [][NextStore]_vars

(***************************************************************************)
(* The view: values derived from the fetched list.                         *)
(***************************************************************************)
\* const { data: todos = [] }
todos == data

Filters == {"all", "active", "completed"}

IsCompleted(todo) == todo.completed

IsActive(todo) == ~todo.completed

\* getFilteredTodos with the two filters' tests exchanged
getFilteredTodos_swapped(list, filter) ==
    CASE filter = "active" -> SelectSeq(list, IsCompleted)
      [] filter = "completed" -> SelectSeq(list, IsActive)
      [] OTHER -> list

getFilteredTodos(list, filter) ==
    CASE filter = "active" -> SelectSeq(list, IsActive)
      [] filter = "completed" -> SelectSeq(list, IsCompleted)
      [] OTHER -> list

filteredTodos == getFilteredTodos(todos, activeFilter)

totalTodos(list) == Len(list)

completedTodos(list) == Len(SelectSeq(list, IsCompleted))

pendingTodos(list) == totalTodos(list) - completedTodos(list)

Elems(list) == {list[i] : i \in 1..Len(list)}

(***************************************************************************)
(* The view: its requests.                                                 *)
(***************************************************************************)
\* apiRequest throws unless the response is ok
apiRequestOk(status) == status >= 200 /\ status < 300

\* a mutation request: status 0 until the server has handled it; observed
\* while it is the last one its useMutation hook was given; live until the
\* page that sent it is reloaded
Request(hook, param, body) ==
    [hook |-> hook, param |-> param, body |-> body, status |-> 0,
     observed |-> TRUE, live |-> TRUE]

Requests == BagToSet(inflight)

\* mutation.isPending of a hook
isPending(hook) == \E r \in Requests : r.hook = hook /\ r.observed /\ r.live

Unobserve(r, hook) == IF r.hook = hook THEN [r EXCEPT !.observed = FALSE] ELSE r

\* mutation.mutate: the request is sent and the hook observes it alone
mutate(hook, param, body) ==
    /\ BagCardinality(inflight) < MaxInflight
    /\ inflight' = BagOfAll(LAMBDA r : Unobserve(r, hook), inflight)
                       (+) SetToBag({Request(hook, param, body)})

\* queryClient.invalidateQueries on the list query: a fetch in flight is
\* cancelled and the list is fetched again, except that a first fetch still
\* in flight (no data yet) is kept and no new one is sent
invalidateQueries(f, hasData) ==
    IF f.state # "idle" /\ ~hasData THEN f
    ELSE [state |-> "sent", rows |-> <<>>]

\* the main page is rendered unless the list query is in error
Shown == ~error

\* nothing is in flight
Quiescent == inflight = EmptyBag /\ fetch.state = "idle"

(***************************************************************************)
(* The view: the user's actions.                                           *)
(***************************************************************************)
setNewTodoText(s) ==
    /\ Shown
    /\ newTodoText' = s
    /\ UNCHANGED <<dbVars, apiVars, activeFilter, editingId, editingText, data,
                   loaded, error, fetch, inflight, toast, cleared>>

\* the submit button is disabled while a create is pending
handleSubmit ==
    /\ Shown
    /\ ~isPending("create")
    /\ IF trim(newTodoText) = <<>> THEN UNCHANGED inflight
       ELSE mutate("create", <<>>, [text |-> trim(newTodoText)])
    /\ UNCHANGED <<dbVars, apiVars, newTodoText, activeFilter, editingId,
                   editingText, data, loaded, error, fetch, toast, cleared>>

handleToggleComplete(todo) ==
    /\ Shown
    /\ todo \in Elems(filteredTodos)
    /\ ~isPending("update")
    /\ mutate("update", idToString(todo.id), [completed |-> ~todo.completed])
    /\ UNCHANGED <<dbVars, apiVars, newTodoText, activeFilter, editingId,
                   editingText, data, loaded, error, fetch, toast, cleared>>

handleDeleteTodo(id, confirm) ==
    /\ Shown
    /\ \E todo \in Elems(filteredTodos) : todo.id = id
    /\ ~isPending("delete")
    /\ IF confirm THEN mutate("delete", idToString(id), EmptyBody)
       ELSE UNCHANGED inflight
    /\ UNCHANGED <<dbVars, apiVars, newTodoText, activeFilter, editingId,
                   editingText, data, loaded, error, fetch, toast, cleared>>

startEditing(todo) ==
    /\ Shown
    /\ todo \in Elems(filteredTodos)
    /\ editingId # todo.id
    /\ ~isPending("update")
    /\ editingId' = todo.id
    /\ editingText' = todo.text
    /\ UNCHANGED <<dbVars, apiVars, newTodoText, activeFilter, data, loaded,
                   error, fetch, inflight, toast, cleared>>

\* the edit input and its buttons are rendered in the row of the task
\* being edited
EditorShown == Shown /\ \E todo \in Elems(filteredTodos) : todo.id = editingId

setEditingText(s) ==
    /\ EditorShown
    /\ editingText' = s
    /\ UNCHANGED <<dbVars, apiVars, newTodoText, activeFilter, editingId, data,
                   loaded, error, fetch, inflight, toast, cleared>>

cancelEditing ==
    /\ EditorShown
    /\ editingId' = 0
    /\ editingText' = <<>>
    /\ UNCHANGED <<dbVars, apiVars, newTodoText, activeFilter, data, loaded,
                   error, fetch, inflight, toast, cleared>>

\* Enter in the edit input, or the save button
saveEditing ==
    /\ EditorShown
    /\ IF trim(editingText) = <<>>
       THEN UNCHANGED <<inflight, editingId, editingText>>
       ELSE /\ mutate("update", idToString(editingId),
                      [text |-> trim(editingText)])
            /\ editingId' = 0
            /\ editingText' = <<>>
    /\ UNCHANGED <<dbVars, apiVars, newTodoText, activeFilter, data, loaded,
                   error, fetch, toast, cleared>>

RECURSIVE mutateEach(_, _)
\* completedTodos.forEach(todo => deleteTodoMutation.mutate(todo.id))
mutateEach(list, bag) ==
    IF list = <<>> THEN bag
    ELSE mutateEach(Tail(list),
             BagOfAll(LAMBDA r : Unobserve(r, "delete"), bag)
                 (+) SetToBag({Request("delete", idToString(Head(list).id),
                                       EmptyBody)}))

\* handleClearCompleted deleting every task of the list, not the completed
handleClearCompleted_everyTask(confirm) ==
    /\ Shown
    /\ Len(todos) > 0
    /\ completedTodos(todos) # 0
    /\ ~isPending("delete")
    /\ IF confirm
       THEN /\ BagCardinality(inflight) + Len(todos) <= MaxInflight
            /\ inflight' = mutateEach(todos, inflight)
            /\ cleared' = [ran |-> TRUE, seen |-> todos, failed |-> FALSE]
       ELSE UNCHANGED <<inflight, cleared>>
    /\ UNCHANGED <<dbVars, apiVars, newTodoText, activeFilter, editingId,
                   editingText, data, loaded, error, fetch, toast>>

handleClearCompleted(confirm) ==
    /\ Shown
    /\ Len(todos) > 0
    /\ completedTodos(todos) # 0
    /\ ~isPending("delete")
    /\ LET completed == SelectSeq(todos, IsCompleted)
       IN  IF confirm /\ Len(completed) # 0
           THEN /\ BagCardinality(inflight) + Len(completed) <= MaxInflight
                /\ inflight' = mutateEach(completed, inflight)
                /\ cleared' = [ran |-> TRUE, seen |-> todos, failed |-> FALSE]
           ELSE UNCHANGED <<inflight, cleared>>
    /\ UNCHANGED <<dbVars, apiVars, newTodoText, activeFilter, editingId,
                   editingText, data, loaded, error, fetch, toast>>

setActiveFilter(f) ==
    /\ Shown
    /\ activeFilter' = f
    /\ UNCHANGED <<dbVars, apiVars, newTodoText, editingId, editingText, data,
                   loaded, error, fetch, inflight, toast, cleared>>

\* the error page's retry: window.location.reload()
Reload ==
    /\ error
    /\ newTodoText' = <<>>
    /\ activeFilter' = "all"
    /\ editingId' = 0
    /\ editingText' = <<>>
    /\ data' = <<>>
    /\ loaded' = FALSE
    /\ error' = FALSE
    /\ fetch' = [state |-> "sent", rows |-> <<>>]
    /\ inflight' = BagOfAll(LAMBDA r : [r EXCEPT !.observed = FALSE,
                                                 !.live = FALSE], inflight)
    /\ toast' = "none"
    /\ cleared' = NoClear
    /\ UNCHANGED <<dbVars, apiVars>>

(***************************************************************************)
(* The server handling the view's requests, and the view receiving the     *)
(* responses.                                                              *)
(***************************************************************************)
Handle(r, dbFails) ==
    CASE r.hook = "create" -> PostTodos(r.body, store, nextId, now, dbFails)
      [] r.hook = "update" -> PutTodo(r.param, r.body, store, nextId, now, dbFails)
      [] r.hook = "delete" -> DeleteTodo(r.param, store, nextId, dbFails)

ServeMutation(r) ==
    /\ r \in Requests
    /\ r.status = 0
    /\ r.hook = "create" => CanInsert(r.body, nextId)
    /\ \E dbFails \in BOOLEAN :
           LET reply == Handle(r, dbFails)
           IN  /\ store' = reply.store
               /\ nextId' = reply.nextId
               /\ inflight' = (inflight (-) SetToBag({r}))
                                  (+) SetToBag({[r EXCEPT !.status = reply.status]})
    /\ UNCHANGED <<now, apiVars, newTodoText, activeFilter, editingId, editingText,
                   data, loaded, error, fetch, toast, cleared>>

ToastOf(hook, ok) ==
    CASE hook = "create" -> IF ok THEN "added" ELSE "add failed"
      [] hook = "update" -> IF ok THEN "updated" ELSE "update failed"
      [] hook = "delete" -> IF ok THEN "deleted" ELSE "delete failed"

\* onSuccess of the hook
onSuccess(hook) ==
    /\ fetch' = invalidateQueries(fetch, loaded)
    /\ newTodoText' = IF hook = "create" THEN <<>> ELSE newTodoText
    /\ toast' = ToastOf(hook, TRUE)
    /\ UNCHANGED cleared

\* onError of the hook
onError(hook) ==
    /\ toast' = ToastOf(hook, FALSE)
    /\ cleared' = IF hook = "delete" /\ cleared.ran
                  THEN [cleared EXCEPT !.failed = TRUE] ELSE cleared
    /\ UNCHANGED <<fetch, newTodoText>>

DeliverMutation(r) ==
    /\ r \in Requests
    /\ r.status # 0
    /\ inflight' = inflight (-) SetToBag({r})
    /\ IF ~r.live THEN UNCHANGED <<fetch, newTodoText, toast, cleared>>
       ELSE IF apiRequestOk(r.status) THEN onSuccess(r.hook)
       ELSE onError(r.hook)
    /\ UNCHANGED <<dbVars, apiVars, activeFilter, editingId, editingText, data,
                   loaded, error>>

\* the server handles the list request
FetchServe ==
    /\ fetch.state = "sent"
    /\ \E rows \in getAllTodos(store) : \E dbFails \in BOOLEAN :
           LET reply == GetTodos(rows, store, nextId, dbFails)
           IN  fetch' = [state |-> IF reply.status = 200 THEN "ok" ELSE "err",
                         rows |-> reply.rows]
    /\ UNCHANGED <<dbVars, apiVars, newTodoText, activeFilter, editingId,
                   editingText, data, loaded, error, inflight, toast, cleared>>

\* the list query settles
FetchDeliver ==
    /\ fetch.state \in {"ok", "err"}
    /\ IF fetch.state = "ok"
       THEN data' = fetch.rows /\ loaded' = TRUE /\ error' = FALSE
       ELSE error' = TRUE /\ UNCHANGED <<data, loaded>>
    /\ fetch' = NoFetch
    /\ UNCHANGED <<dbVars, apiVars, newTodoText, activeFilter, editingId,
                   editingText, inflight, toast, cleared>>

NextServer ==
    \/ \E r \in Requests : ServeMutation(r)
    \/ \E r \in Requests : DeliverMutation(r)
    \/ FetchServe
    \/ FetchDeliver

(***************************************************************************)
(* The page opened on a table that already holds tasks.                    *)
(***************************************************************************)
PreloadedRow(i, done) ==
    [id |-> i, text |-> <<"b">>, completed |-> done,
     createdAt |-> i, updatedAt |-> i]

Preloaded(most) ==
    /\ \E n \in 1..most : \E done \in [1..n -> BOOLEAN] :
           /\ store = {PreloadedRow(i, done[i]) : i \in 1..n}
           /\ nextId = n + 1
           /\ now = n
    /\ req = NoRequest
    /\ res = NoResponse
    /\ InitView

InitPreloaded == Preloaded(MaxPreloaded)

InitFew == Preloaded(MaxFew)

\* adding tasks
NextCreate ==
    \/ \E s \in Strings : setNewTodoText(s)
    \/ handleSubmit
    \/ Reload
    \/ NextServer

SpecCreate == InitEmpty /\ [][NextCreate]_vars

\* editing tasks
NextEdit ==
    \/ \E todo \in Elems(todos) : startEditing(todo)
    \/ \E s \in Strings : setEditingText(s)
    \/ saveEditing
    \/ cancelEditing
    \/ NextServer

SpecEdit == InitFew /\ [][NextEdit]_vars

\* clearing the completed tasks
NextClear ==
    \/ \E confirm \in BOOLEAN : handleClearCompleted(confirm)
    \/ NextServer

SpecClear == InitPreloaded /\ [][NextClear]_vars

\* filtering the list while tasks are toggled
NextFilter ==
    \/ \E f \in Filters : setActiveFilter(f)
    \/ \E todo \in Elems(todos) : handleToggleComplete(todo)
    \/ NextServer

SpecFilter == InitFew /\ [][NextFilter]_vars

\* adding tasks from the page and from an API client
NextSubmit ==
    \/ \E s \in Strings : setNewTodoText(s)
    \/ handleSubmit
    \/ NextServer
    \/ \E body \in Bodies : ApiSend("POST", <<>>, body)
    \/ ApiHandle
    \/ ApiDone

SpecSubmit == InitEmpty /\ [][NextSubmit]_vars

\* toggling tasks and clearing the completed ones
NextToggle ==
    \/ \E todo \in Elems(todos) : handleToggleComplete(todo)
    \/ \E confirm \in BOOLEAN : handleClearCompleted(confirm)
    \/ NextServer

SpecToggle == InitFew /\ [][NextToggle]_vars

(***************************************************************************)
(* The properties.                                                         *)
(***************************************************************************)
IdsOf(st) == {r.id : r \in st}

RowOf(st, id) == CHOOSE r \in st : r.id = id

IsBlank(body) == "text" \notin DOMAIN body \/ trim(body.text) = <<>>

\* the step in which the server handles the API client's request
Handled(method) == req.method = method /\ res = NoResponse /\ res' # NoResponse

\* C1: a successful create returns and persists one new row whose id was
\* never given to a row before (every id ever given is below the serial,
\* which never goes back, and the new id is not below it), with the text
\* sent, completed = false and createdAt = updatedAt.
C1_CreateIsFresh ==
    [][/\ nextId' >= nextId
       /\ \A r \in store' : r.id < nextId'
       /\ (Handled("POST") /\ res'.status = 201) =>
              /\ Len(res'.rows) = 1
              /\ LET todo == res'.rows[1]
                 IN  /\ todo.id >= nextId
                     /\ todo.id \notin IdsOf(store)
                     /\ store' = store \cup {todo}
                     /\ todo.text = req.body.text
                     /\ todo.completed = FALSE
                     /\ todo.createdAt = todo.updatedAt]_vars

\* a create has succeeded after the only earlier task was deleted
C1_Witness ==
    /\ req.method = "POST"
    /\ res.status = 201
    /\ store = {res.rows[1]}
    /\ res.rows[1].id = 2

\* C2: a create whose text is missing, empty or blank is answered 400 and
\* leaves the table as it was; the page never sends such a create; and no
\* row of the table ever has a blank text.
C2_BlankRejected ==
    [][/\ (Handled("POST") /\ IsBlank(req.body)) =>
              /\ res'.status = 400
              /\ store' = store
              /\ nextId' = nextId
       /\ \A r \in BagToSet(inflight') :
              r.hook = "create" => ~IsBlank(r.body)
       /\ \A r \in store' : trim(r.text) # <<>>]_vars

\* a blank create was rejected while the table holds a task and the
\* page's draft is blank
C2_Witness ==
    /\ req.method = "POST"
    /\ req.body = [text |-> <<" ">>]
    /\ res.status = 400
    /\ store # {}
    /\ newTodoText = <<" ">>

\* C3: a successful update that supplies only completed sets that row's
\* completed and updatedAt and nothing else: its id, text and createdAt,
\* and every other row, are as before.
C3_UpdateCompletedFrame ==
    [][(Handled("PUT") /\ DOMAIN req.body = {"completed"}
            /\ res'.status = 200) =>
           LET id  == parseInt(req.param)
               old == RowOf(store, id)
               new == RowOf(store', id)
           IN  /\ id \in IdsOf(store)
               /\ new.id = old.id
               /\ new.text = old.text
               /\ new.createdAt = old.createdAt
               /\ new.completed = req.body.completed
               /\ new.updatedAt = now
               /\ store' \ {new} = store \ {old}
               /\ res'.rows = <<new>>]_vars

\* one of two tasks was completed after it was created
C3_Witness ==
    /\ req.method = "PUT"
    /\ req.body = [completed |-> TRUE]
    /\ res.status = 200
    /\ Cardinality(store) = 2
    /\ res.rows[1] \in store
    /\ res.rows[1].updatedAt > res.rows[1].createdAt

\* C4: an update addressed to an id that is not in the table leaves the
\* table as it was and returns no row; the storage gives undefined, and the
\* route answers 404 when the body is valid and the storage does not fail.
C4_UpdateMissing ==
    [][(Handled("PUT") /\ ~isNaN(parseInt(req.param))
            /\ parseInt(req.param) \notin IdsOf(store)) =>
           /\ store' = store
           /\ nextId' = nextId
           /\ res'.rows = <<>>
           /\ res'.status \in {400, 404, 500}
           /\ updateTodo(store, parseInt(req.param), req.body, now).todo = <<>>
           /\ (updateTodoSchema(req.body).success /\ res'.status # 500)
                  => res'.status = 404]_vars

\* an update of a task that was created and deleted was answered 404
\* while another task is in the table
C4_Witness ==
    /\ req.method = "PUT"
    /\ res.status = 404
    /\ parseInt(req.param) = 1
    /\ nextId > 1
    /\ store # {}

\* C5: a successful delete removes the row of that id and no other; an id
\* that was given and is no longer in the table never comes back, and a
\* listing holds exactly the rows of the table, so no later listing has it;
\* a delete of an id that is not in the table is answered 404 ("nothing
\* removed", the storage giving false without throwing) and leaves the
\* table as it was.
C5_DeleteIsPermanent ==
    [][/\ \A id \in 1..(nextId - 1) :
              id \notin IdsOf(store) => id \notin IdsOf(store')
       /\ (Handled("GET") /\ res'.status = 200) =>
              {res'.rows[i] : i \in 1..Len(res'.rows)} = store
       /\ (Handled("DELETE") /\ ~isNaN(parseInt(req.param))) =>
              LET id == parseInt(req.param)
              IN  /\ res'.status = 204 =>
                      /\ id \in IdsOf(store)
                      /\ store' = {r \in store : r.id # id}
                  /\ id \notin IdsOf(store) =>
                      /\ res'.status \in {404, 500}
                      /\ store' = store
                      /\ ~deleteTodo(store, id).deleted]_vars

\* the delete of a task already deleted was answered 404
C5_Witness ==
    /\ req.method = "DELETE"
    /\ res.status = 404
    /\ parseInt(req.param) = 1
    /\ nextId = 2

\* the delete requests in bag for the task id that the server has not
\* handled yet
NewDeletes(bag, id) ==
    LET S == {r \in BagToSet(bag) :
                  r.hook = "delete" /\ r.param = idToString(id) /\ r.status = 0}
    IN  BagCardinality([r \in S |-> bag[r]])

\* C6: confirming "clear completed" on a list with k completed tasks sends
\* k delete requests, one for each completed task and none for another;
\* and once they have all succeeded and nothing is in flight, in whatever
\* order they were handled and answered, the list shown is the tasks of
\* that list that were not completed.
C6_ClearCompleted ==
    [][/\ BagCardinality(inflight') > BagCardinality(inflight) =>
              /\ BagCardinality(inflight')
                     = BagCardinality(inflight) + completedTodos(todos)
              /\ \A todo \in Elems(todos) :
                     NewDeletes(inflight', todo.id)
                         = NewDeletes(inflight, todo.id)
                               + (IF todo.completed THEN 1 ELSE 0)
       /\ (cleared'.ran /\ ~cleared'.failed /\ ~error'
               /\ inflight' = EmptyBag /\ fetch'.state = "idle") =>
              data' = SelectSeq(cleared'.seen, IsActive)]_vars

\* the spec's case: 2 completed tasks among 3 were cleared and 1 is shown
C6_Witness ==
    /\ cleared.ran
    /\ ~cleared.failed
    /\ Quiescent
    /\ ~error
    /\ Len(cleared.seen) = 3
    /\ completedTodos(cleared.seen) = 2
    /\ Len(todos) = 1

\* C7: when the list is shown and no request is in flight, the list shown
\* is the table's.
C7_ViewInSync == (Quiescent /\ ~error) => todos \in getAllTodos(store)

\* C8: confirming an edit whose draft is not blank sends one update with
\* the trimmed draft for the task being edited, and the view stays in edit
\* mode, with its draft, until that update has succeeded.
C8_ConfirmEdit ==
    [][BagCardinality(inflight') > BagCardinality(inflight) =>
           /\ trim(editingText) # <<>>
           /\ inflight' = BagOfAll(LAMBDA r : Unobserve(r, "update"), inflight)
                              (+) SetToBag({Request("update", idToString(editingId),
                                                    [text |-> trim(editingText)])})
           /\ editingId' = editingId
           /\ editingText' = editingText]_vars

\* C9: submitting a draft that is not blank sends one create with the
\* trimmed draft; when the create has succeeded the draft is cleared and a
\* list request is sent; when it has failed the draft is as it was, the
\* failure is notified and the list shown is as it was.
C9_SubmitDraft ==
    [][/\ BagCardinality(inflight') > BagCardinality(inflight) =>
              /\ trim(newTodoText) # <<>>
              /\ inflight' = inflight
                     (+) SetToBag({Request("create", <<>>,
                                           [text |-> trim(newTodoText)])})
              /\ newTodoText' = newTodoText
       /\ \A r \in Requests :
              (r.live /\ r.status # 0 /\ inflight' = inflight (-) SetToBag({r})) =>
                  IF apiRequestOk(r.status)
                  THEN /\ newTodoText' = <<>>
                       /\ fetch'.state = "sent"
                  ELSE /\ newTodoText' = newTodoText
                       /\ toast' = "add failed"
                       /\ data' = data
                       /\ error' = error]_vars

\* whether sub is list without some of its tasks, the others in order
IsSublist(sub, list) ==
    \E pos \in [1..Len(sub) -> 1..Len(list)] :
        /\ \A i \in 1..Len(sub) : sub[i] = list[pos[i]]
        /\ \A i \in 1..Len(sub) : \A j \in 1..Len(sub) : i < j => pos[i] < pos[j]

\* C10: of the fetched list, the view filtered by active is exactly the
\* tasks with completed = false, by completed exactly those with completed
\* = true, by all the list itself; the pending count is the number of active
\* tasks, and the pending and completed counts add up to the total.
C10_FilteredView ==
    LET active == getFilteredTodos(todos, "active")
        done   == getFilteredTodos(todos, "completed")
    IN  /\ Elems(active) = {t \in Elems(todos) : t.completed = FALSE}
        /\ Elems(done) = {t \in Elems(todos) : t.completed = TRUE}
        /\ IsSublist(active, todos)
        /\ IsSublist(done, todos)
        /\ getFilteredTodos(todos, "all") = todos
        /\ filteredTodos = getFilteredTodos(todos, activeFilter)
        /\ pendingTodos(todos) = Len(active)
        /\ completedTodos(todos) = Len(done)
        /\ pendingTodos(todos) + completedTodos(todos) = totalTodos(todos)

\* one of two fetched tasks is completed and the completed filter shows it
C10_Witness ==
    /\ activeFilter = "completed"
    /\ Len(todos) = 2
    /\ Len(filteredTodos) = 1
    /\ filteredTodos[1].completed

(***************************************************************************)
(* Toggling and clearing against a list that may be stale.                 *)
(***************************************************************************)
\* the requests this step sends
Sent(hook) ==
    {r \in BagToSet(inflight') \ Requests : r.hook = hook /\ r.status = 0}

\* this step is the server applying request r, with the given outcome
Applied(r, ok) ==
    /\ r \in Requests
    /\ r.status = 0
    /\ \E r2 \in BagToSet(inflight') :
           /\ r2 = [r EXCEPT !.status = r2.status]
           /\ apiRequestOk(r2.status) = ok
           /\ inflight' = (inflight (-) SetToBag({r})) (+) SetToBag({r2})

\* C11: every toggle sends an update whose body carries only `completed`,
\* and when the server applies it successfully the task's completed value
\* in the table is the negation of the value it had in the table just
\* before, also for a toggle made while the refetch of an earlier
\* successful toggle is still in flight.
C11_ToggleFlips ==
    [][ /\ \A r \in Sent("update") : DOMAIN r.body = {"completed"}
        /\ \A r \in Requests :
               (r.hook = "update" /\ Applied(r, TRUE))
                   => RowOf(store', parseInt(r.param)).completed
                          = ~RowOf(store, parseInt(r.param)).completed ]_vars

\* C12: "clear completed" removes only tasks that are completed in the
\* table: every delete it sends finds its task completed in the table at
\* the moment the server applies it, so no task that is active in the table
\* is removed, whatever the interleaving of earlier toggles, their refetches
\* and the clear.
C12_ClearOnlyCompleted ==
    [][ /\ \A r \in Requests :
               (r.hook = "delete" /\ Applied(r, TRUE))
                   => RowOf(store, parseInt(r.param)).completed
        /\ \A id \in IdsOf(store) \ IdsOf(store') :
               RowOf(store, id).completed ]_vars

====
